---------------------------- MODULE Spec2Model ----------------------------
(***************************************************************************)
(* A model of streamlit_app.py, the YAML-driven case note generator: one   *)
(* run of the script, from loading templates.yaml to the generated note,   *)
(* with the helper functions format_check_types, get_sidebar_options and   *)
(* get_nested_item and the built-in conversions the script relies on       *)
(* (str.title, sorted, str.join, str, str.format).                         *)
(*                                                                         *)
(* A Python string is a sequence of one-character strings.  A Python or    *)
(* YAML value is a record tagged by its type: YStr, YInt, YList, YDict,    *)
(* YNone.  A dict is a sequence of [k, v] entries in insertion order.      *)
(***************************************************************************)
EXTENDS Integers, Sequences, FiniteSets, TLC

\* the result for an empty selection: [No check type selected]
S_NoCheckType ==
    <<"[", "N", "o", " ", "c", "h", "e", "c", "k", " ", "t", "y", "p", "e",
      " ", "s", "e", "l", "e", "c", "t", "e", "d", "]">>

\* the fixed result for three items: Credit, Criminal & Directorship
S_ThreeLiteral ==
    <<"C", "r", "e", "d", "i", "t", ",", " ", "C", "r", "i", "m", "i", "n",
      "a", "l", " ", "&", " ", "D", "i", "r", "e", "c", "t", "o", "r", "s",
      "h", "i", "p">>

\* the joiner of format_check_types:  & 
S_Amp ==
    <<" ", "&", " ">>

\* the separator of display paths:  > 
S_Gt ==
    <<" ", ">", " ">>

\* the marker for a formatter that raised: [Formatting Error]
S_FormattingError ==
    <<"[", "F", "o", "r", "m", "a", "t", "t", "i", "n", "g", " ", "E", "r",
      "r", "o", "r", "]">>

\* the marker for an unregistered formatter: [Unknown Format Function]
S_UnknownFormatFunction ==
    <<"[", "U", "n", "k", "n", "o", "w", "n", " ", "F", "o", "r", "m", "a",
      "t", " ", "F", "u", "n", "c", "t", "i", "o", "n", "]">>

\* the template of a node without one: [Template not found in YAML]
S_TemplateNotFound ==
    <<"[", "T", "e", "m", "p", "l", "a", "t", "e", " ", "n", "o", "t", " ",
      "f", "o", "u", "n", "d", " ", "i", "n", " ", "Y", "A", "M", "L", "]">>

\* the one name in format_functions_registry: format_check_types
S_format_check_types ==
    <<"f", "o", "r", "m", "a", "t", "_", "c", "h", "e", "c", "k", "_", "t",
      "y", "p", "e", "s">>

\* node key: display_name
K_display_name ==
    <<"d", "i", "s", "p", "l", "a", "y", "_", "n", "a", "m", "e">>

\* node key: sub_items
K_sub_items ==
    <<"s", "u", "b", "_", "i", "t", "e", "m", "s">>

\* node key: template
K_template ==
    <<"t", "e", "m", "p", "l", "a", "t", "e">>

\* node key: input_config
K_input_config ==
    <<"i", "n", "p", "u", "t", "_", "c", "o", "n", "f", "i", "g">>

\* field key: widget
K_widget ==
    <<"w", "i", "d", "g", "e", "t">>

\* field key: options
K_options ==
    <<"o", "p", "t", "i", "o", "n", "s">>

\* field key: format_function
K_format_function ==
    <<"f", "o", "r", "m", "a", "t", "_", "f", "u", "n", "c", "t", "i", "o",
      "n">>

\* the automatic placeholder: current_date
K_current_date ==
    <<"c", "u", "r", "r", "e", "n", "t", "_", "d", "a", "t", "e">>

\* widget kind: text_input
W_text_input ==
    <<"t", "e", "x", "t", "_", "i", "n", "p", "u", "t">>

\* widget kind: text_area
W_text_area ==
    <<"t", "e", "x", "t", "_", "a", "r", "e", "a">>

\* widget kind: multiselect
W_multiselect ==
    <<"m", "u", "l", "t", "i", "s", "e", "l", "e", "c", "t">>

\* the text searched for in the template: {current_date}
S_CurrentDateField ==
    <<"{", "c", "u", "r", "r", "e", "n", "t", "_", "d", "a", "t", "e", "}">>

\* The characters of the model in code-point order (Python compares strings
\* by code point): printable ASCII without the double quote, the backslash
\* and the backquote.
Chars ==
    <<" ", "!", "#", "$", "%", "&", "'", "(", ")", "*", "+", ",", "-", ".",
      "/", "0", "1", "2", "3", "4", "5", "6", "7", "8", "9", ":", ";", "<",
      "=", ">", "?", "@", "A", "B", "C", "D", "E", "F", "G", "H", "I", "J",
      "K", "L", "M", "N", "O", "P", "Q", "R", "S", "T", "U", "V", "W", "X",
      "Y", "Z", "[", "]", "^", "_", "a", "b", "c", "d", "e", "f", "g", "h",
      "i", "j", "k", "l", "m", "n", "o", "p", "q", "r", "s", "t", "u", "v",
      "w", "x", "y", "z", "{", "|", "}", "~">>

LowerLetters ==
    <<"a", "b", "c", "d", "e", "f", "g", "h", "i", "j", "k", "l", "m", "n",
      "o", "p", "q", "r", "s", "t", "u", "v", "w", "x", "y", "z">>

UpperLetters ==
    <<"A", "B", "C", "D", "E", "F", "G", "H", "I", "J", "K", "L", "M", "N",
      "O", "P", "Q", "R", "S", "T", "U", "V", "W", "X", "Y", "Z">>
(***************************************************************************)
(* Bounds of the model.                                                    *)
(***************************************************************************)
\* The greatest number of options selected in a multiselect.
MaxSel == 4

\* The greatest number of pieces a generated template is made of.
MaxPieces == 3

\* The greatest nesting depth of groups in a generated schema tree.
MaxDepth == 2

(***************************************************************************)
(* Values.                                                                 *)
(***************************************************************************)
YStr(s) == [t |-> "str", s |-> s]

YInt(n) == [t |-> "int", n |-> n]

YList(l) == [t |-> "list", l |-> l]

YDict(items) == [t |-> "dict", items |-> items]

YNone == [t |-> "none"]

Entry(k, v) == [k |-> k, v |-> v]

\* key in d
Has(d, key) == \E i \in 1..Len(d.items) : d.items[i].k = key

\* d[key], for a key that is in d
Get(d, key) == d.items[CHOOSE i \in 1..Len(d.items) : d.items[i].k = key].v

\* d.get(key, default)
GetOr(d, key, default) == IF Has(d, key) THEN Get(d, key) ELSE default

\* d[key] = value: an existing key keeps its place, a new one is appended
DictSet(items, key, value) ==
    IF \E i \in 1..Len(items) : items[i].k = key
    THEN [i \in 1..Len(items) |->
            IF items[i].k = key THEN Entry(key, value) ELSE items[i]]
    ELSE Append(items, Entry(key, value))

\* The truth value Python gives of a value
Truthy(v) ==
    CASE v.t = "none" -> FALSE
      [] v.t = "str"  -> v.s # <<>>
      [] v.t = "int"  -> v.n # 0
      [] v.t = "list" -> v.l # <<>>
      [] v.t = "dict" -> v.items # <<>>

(***************************************************************************)
(* Strings: order, case, concatenation.                                    *)
(***************************************************************************)
Ord(c) == CHOOSE i \in 1..Len(Chars) : Chars[i] = c

\* s < t for two Python strings: lexicographic by code point
RECURSIVE StrLess(_, _)
StrLess(s, u) ==
    IF u = <<>> THEN FALSE
    ELSE IF s = <<>> THEN TRUE
    ELSE IF s[1] = u[1] THEN StrLess(Tail(s), Tail(u))
    ELSE Ord(s[1]) < Ord(u[1])

IsLower(c) == \E i \in 1..Len(LowerLetters) : LowerLetters[i] = c

IsUpper(c) == \E i \in 1..Len(UpperLetters) : UpperLetters[i] = c

ToUpper(c) ==
    IF IsLower(c)
    THEN UpperLetters[CHOOSE i \in 1..Len(LowerLetters) : LowerLetters[i] = c]
    ELSE c

ToLower(c) ==
    IF IsUpper(c)
    THEN LowerLetters[CHOOSE i \in 1..Len(UpperLetters) : UpperLetters[i] = c]
    ELSE c

\* s.replace("_", " ")
ReplaceUnderscore(s) == [i \in 1..Len(s) |-> IF s[i] = "_" THEN " " ELSE s[i]]

\* s.title(): a cased character that follows an uncased one is upper-cased,
\* one that follows a cased one is lower-cased
Title(s) ==
    [i \in 1..Len(s) |->
        IF i > 1 /\ (IsLower(s[i - 1]) \/ IsUpper(s[i - 1]))
        THEN ToLower(s[i])
        ELSE ToUpper(s[i])]

\* sep.join(strs) for a sequence of strings
RECURSIVE Join(_, _)
Join(sep, strs) ==
    IF strs = <<>> THEN <<>>
    ELSE IF Len(strs) = 1 THEN strs[1]
    ELSE strs[1] \o sep \o Join(sep, Tail(strs))

\* str(n) for a natural number
RECURSIVE IntStr(_)
IntStr(n) ==
    IF n < 10 THEN <<Chars[Ord("0") + n]>>
    ELSE IntStr(n \div 10) \o <<Chars[Ord("0") + (n % 10)]>>

\* repr(v) of a string without quotes, or of a number
Repr(v) == IF v.t = "str" THEN <<"'">> \o v.s \o <<"'">> ELSE IntStr(v.n)

\* str(v), which is also format(v, "")
PyStr(v) ==
    CASE v.t = "str"  -> v.s
      [] v.t = "int"  -> IntStr(v.n)
      [] v.t = "list" ->
            <<"[">> \o Join(<<",", " ">>, [i \in 1..Len(v.l) |-> Repr(v.l[i])])
                    \o <<"]">>

(***************************************************************************)
(* sorted: Python raises TypeError when it compares a str with an int.     *)
(***************************************************************************)
Less(a, b) == IF a.t = "str" THEN StrLess(a.s, b.s) ELSE a.n < b.n

SameTypes(l) == \A i, j \in 1..Len(l) : l[i].t = l[j].t

RemoveAt(l, i) == [j \in 1..(Len(l) - 1) |-> IF j < i THEN l[j] ELSE l[j + 1]]

\* sorted(l) for elements of one type (the sort is stable: the first of the
\* least elements goes first)
RECURSIVE Sorted(_)
Sorted(l) ==
    IF l = <<>> THEN <<>>
    ELSE LET m == CHOOSE i \in 1..Len(l) :
                    /\ \A j \in 1..Len(l) : ~Less(l[j], l[i])
                    /\ \A j \in 1..(i - 1) : Less(l[i], l[j])
         IN  <<l[m]>> \o Sorted(RemoveAt(l, m))

(***************************************************************************)
(* format_check_types.  The result is [raised, val]: val is the value      *)
(* returned, raised says that the call ended in an exception instead.      *)
(***************************************************************************)
Returned(v) == [raised |-> FALSE, val |-> v]

Raised == [raised |-> TRUE, val |-> YNone]

\* The elements of a list, or the characters of a string, as values
Elements(v) == IF v.t = "str" THEN [i \in 1..Len(v.s) |-> YStr(<<v.s[i]>>)] ELSE v.l

\* format_check_types without the sort of a two-item selection
format_check_types_unsorted(selected_types) ==
    LET e == Elements(selected_types)
    IN  IF e = <<>> THEN Returned(YStr(S_NoCheckType))
        ELSE IF Len(e) = 1 THEN Returned(e[1])
        ELSE IF Len(e) = 2
        THEN Returned(YStr(PyStr(e[1]) \o S_Amp \o PyStr(e[2])))
        ELSE IF Len(e) = 3 THEN Returned(YStr(S_ThreeLiteral))
        ELSE IF ~SameTypes(e) \/ e[1].t # "str" THEN Raised
        ELSE Returned(YStr(Join(S_Amp, [i \in 1..Len(e) |-> Sorted(e)[i].s])))

format_check_types(selected_types) ==
    LET e == Elements(selected_types)
    IN  IF e = <<>> THEN Returned(YStr(S_NoCheckType))
        ELSE IF Len(e) = 1 THEN Returned(e[1])
        ELSE IF Len(e) = 2
        THEN IF ~SameTypes(e) THEN Raised
             ELSE LET sorted_types == Sorted(e)
                  IN  Returned(YStr(PyStr(sorted_types[1]) \o S_Amp
                                      \o PyStr(sorted_types[2])))
        ELSE IF Len(e) = 3 THEN Returned(YStr(S_ThreeLiteral))
        ELSE IF ~SameTypes(e) \/ e[1].t # "str" THEN Raised
        ELSE Returned(YStr(Join(S_Amp, [i \in 1..Len(e) |-> Sorted(e)[i].s])))

\* name in format_functions_registry
InRegistry(name) == name = S_format_check_types

\* format_functions_registry[name](raw_value)
ApplyRegistered(name, raw_value) == format_check_types(raw_value)

(***************************************************************************)
(* str.format with keyword arguments, for templates without the characters *)
(* ! : . [                                                                 *)
(* (conversions, format specifications, attribute and index lookups).      *)
(* kwargs is a function from names to values.  The result is               *)
(* [exc, arg, out]: exc is "none" and out the text, or exc names the       *)
(* exception raised and arg is the key of a KeyError.                      *)
(***************************************************************************)
FormatOk(out) == [exc |-> "none", arg |-> <<>>, out |-> out]

FormatRaises(exc, arg) == [exc |-> exc, arg |-> arg, out |-> <<>>]

IsDigit(c) == Ord(c) >= Ord("0") /\ Ord(c) <= Ord("9")

\* The index of the "}" that closes the field opened just before position i,
\* counting nested braces; 0 when the string ends first.
RECURSIVE FieldEnd(_, _, _)
FieldEnd(s, i, depth) ==
    IF i > Len(s) THEN 0
    ELSE IF s[i] = "{" THEN FieldEnd(s, i + 1, depth + 1)
    ELSE IF s[i] = "}"
    THEN IF depth = 1 THEN i ELSE FieldEnd(s, i + 1, depth - 1)
    ELSE FieldEnd(s, i + 1, depth)

\* FormatField with a missing name replaced by nothing instead of a KeyError
FormatField_Lenient(name, kwargs) ==
    IF \E j \in 1..Len(name) : name[j] = "{" THEN FormatRaises("ValueError", <<>>)
    ELSE IF \A j \in 1..Len(name) : IsDigit(name[j])
    THEN FormatRaises("IndexError", <<>>)
    ELSE IF name \notin DOMAIN kwargs THEN FormatOk(<<>>)
    ELSE FormatOk(PyStr(kwargs[name]))

\* The replacement field named name: a missing or numeric name is a
\* positional argument, and the script passes none.
FormatField(name, kwargs) ==
    IF \E j \in 1..Len(name) : name[j] = "{" THEN FormatRaises("ValueError", <<>>)
    ELSE IF \A j \in 1..Len(name) : IsDigit(name[j])
    THEN FormatRaises("IndexError", <<>>)
    ELSE IF name \notin DOMAIN kwargs THEN FormatRaises("KeyError", name)
    ELSE FormatOk(PyStr(kwargs[name]))

\* One pass from position i, left to right, with the text produced so far.
RECURSIVE FormatFrom(_, _, _, _)
FormatFrom(s, i, kwargs, out) ==
    IF i > Len(s) THEN FormatOk(out)
    ELSE IF s[i] = "{"
    THEN IF i < Len(s) /\ s[i + 1] = "{"
         THEN FormatFrom(s, i + 2, kwargs, Append(out, "{"))
         ELSE LET e == FieldEnd(s, i + 1, 1)
              IN  IF e = 0 THEN FormatRaises("ValueError", <<>>)
                  ELSE LET r == FormatField(SubSeq(s, i + 1, e - 1), kwargs)
                       IN  IF r.exc # "none" THEN r
                           ELSE FormatFrom(s, e + 1, kwargs, out \o r.out)
    ELSE IF s[i] = "}"
    THEN IF i < Len(s) /\ s[i + 1] = "}"
         THEN FormatFrom(s, i + 2, kwargs, Append(out, "}"))
         ELSE FormatRaises("ValueError", <<>>)
    ELSE FormatFrom(s, i + 1, kwargs, Append(out, s[i]))

\* Format with the text produced scanned for placeholders once more
Format_Rescans(template, kwargs) ==
    LET r == FormatFrom(template, 1, kwargs, <<>>)
    IN  IF r.exc # "none" THEN r ELSE FormatFrom(r.out, 1, kwargs, <<>>)

\* template.format called with user_inputs as its keyword arguments
Format(template, kwargs) == FormatFrom(template, 1, kwargs, <<>>)

\* needle in s, for two strings
Contains(s, needle) ==
    \E i \in 1..(Len(s) - Len(needle) + 1) :
        SubSeq(s, i, i + Len(needle) - 1) = needle

(***************************************************************************)
(* get_sidebar_options and get_nested_item.                                *)
(***************************************************************************)
\* The assignments options[display] = path that recurse makes for the
\* entries of a dict from the i-th on, in the order it makes them.
RECURSIVE recurse(_, _, _, _)
recurse(items, i, path_list, display_prefix) ==
    IF i > Len(items) THEN <<>>
    ELSE LET key == items[i].k
             value == items[i].v
             rest == recurse(items, i + 1, path_list, display_prefix)
         IN  IF value.t # "dict" THEN rest
             ELSE LET current_display_name ==
                          PyStr(GetOr(value, K_display_name,
                                      YStr(Title(ReplaceUnderscore(key)))))
                      current_path_list == Append(path_list, key)
                      new_display_prefix == display_prefix \o current_display_name
                  IN  IF Has(value, K_sub_items) /\ Get(value, K_sub_items).t = "dict"
                      THEN recurse(Get(value, K_sub_items).items, 1,
                                   current_path_list, new_display_prefix \o S_Gt)
                               \o rest
                      ELSE IF Has(value, K_template)
                      THEN <<Entry(new_display_prefix, current_path_list)>> \o rest
                      ELSE rest

\* The OrderedDict after a sequence of assignments
RECURSIVE AssignAll(_, _)
AssignAll(options, assignments) ==
    IF assignments = <<>> THEN options
    ELSE AssignAll(DictSet(options, assignments[1].k, assignments[1].v),
                   Tail(assignments))

\* get_sidebar_options(data) for a dict: the entries of the OrderedDict
get_sidebar_options(data) == AssignAll(<<>>, recurse(data.items, 1, <<>>, <<>>))

\* get_nested_item(data, path_list): [exc, val], where exc is "none", or the
\* exception caught (and then val is None)
RECURSIVE get_nested_item(_, _)
get_nested_item(temp_data, path_list) ==
    IF path_list = <<>> THEN [exc |-> "none", val |-> temp_data]
    ELSE IF temp_data.t # "dict" THEN [exc |-> "TypeError", val |-> YNone]
    ELSE IF ~Has(temp_data, path_list[1]) THEN [exc |-> "KeyError", val |-> YNone]
    ELSE get_nested_item(Get(temp_data, path_list[1]), Tail(path_list))

(***************************************************************************)
(* The inputs of a run: what templates.yaml holds and what the widgets     *)
(* return.                                                                 *)
(***************************************************************************)
\* Keys of schema nodes; both have the default display name "A B".
NavKeys == {<<"a", "_", "b">>, <<"a", " ", "b">>}

\* A node's display_name: absent, or given
DisplayChoices == {YNone, YStr(<<"X">>)}

WithDisplay(dn, items) ==
    IF dn = YNone THEN items ELSE <<Entry(K_display_name, dn)>> \o items

NoteText == <<"n", "o", "t", "e">>

Leaf(dn) == YDict(WithDisplay(dn, <<Entry(K_template, YStr(NoteText))>>))

Group(dn, children) == YDict(WithDisplay(dn, <<Entry(K_sub_items, YDict(children))>>))

\* The values a key of the schema may have that are not groups: a leaf, a
\* scalar, a node with neither template nor sub_items, a node whose
\* sub_items is no mapping.
Terminals ==
    {Leaf(dn) : dn \in DisplayChoices}
        \cup {YStr(<<"v">>),
              YDict(<<Entry(K_display_name, YStr(<<"X">>))>>),
              YDict(<<Entry(K_sub_items, YNone), Entry(K_template, YStr(NoteText))>>)}

Singles(nodes) == {<<Entry(k, n)>> : k \in NavKeys, n \in nodes}

Pairs(nodes) ==
    {<<Entry(ks[1], n1), Entry(ks[2], n2)>> :
        ks \in {p \in NavKeys \X NavKeys : p[1] # p[2]}, n1 \in nodes, n2 \in nodes}

\* Nodes nested at most d groups deep: a group holds one node, or (the
\* innermost group) two terminals.
RECURSIVE Nodes(_)
Nodes(d) ==
    IF d = 0 THEN Terminals
    ELSE Nodes(d - 1)
            \cup {Group(dn, c) : dn \in DisplayChoices, c \in Singles(Nodes(d - 1))}
            \cup {Group(dn, c) : dn \in DisplayChoices, c \in Pairs(Terminals)}

\* Schemas that exercise the sidebar: nesting, siblings, equal display
\* names, a child named like a key of its group
NavTrees ==
    {YDict(c) : c \in Singles(Nodes(MaxDepth))}
        \cup {YDict(c) : c \in Pairs(Terminals)}
        \cup {YDict(c) : c \in Pairs({Group(dn, <<Entry(k, Leaf(YNone))>>) :
                                        dn \in DisplayChoices, k \in NavKeys})}
        \cup {YDict(<<Entry(k, Group(YStr(<<"X">>), <<Entry(k2, Leaf(dn))>>))>>) :
                k \in NavKeys, k2 \in {K_display_name, K_sub_items},
                dn \in DisplayChoices}

\* The names of the placeholders of the generated templates
N_x == <<"x">>

N_y == <<"y">>

\* Templates: up to MaxPieces of these pieces one after the other
Pieces ==
    {<<"{">>, <<"}">>, <<"x">>, <<"{", "x", "}">>, <<"{", "y", "}">>,
     S_CurrentDateField}

RECURSIVE TemplatesOf(_)
TemplatesOf(n) ==
    IF n = 0 THEN {<<>>}
    ELSE LET shorter == TemplatesOf(n - 1)
         IN  shorter \cup {s \o p : s \in shorter, p \in Pieces}

Templates == TemplatesOf(MaxPieces)

\* A field's configuration
FieldConfig(widget, format_function, more) ==
    YDict((IF widget = YNone THEN <<>> ELSE <<Entry(K_widget, widget)>>)
          \o (IF format_function = YNone THEN <<>>
              ELSE <<Entry(K_format_function, format_function)>>)
          \o more)

TextField(name) == Entry(name, FieldConfig(YStr(W_text_input), YNone, <<>>))

\* The input configurations of the generated templates: text fields
TextConfigs ==
    {<<>>, <<TextField(N_x)>>, <<TextField(N_x), TextField(N_y)>>,
     <<TextField(K_current_date)>>}

\* A schema of one leaf
LeafTree(template, fields) ==
    YDict(<<Entry(<<"n">>,
                  YDict(<<Entry(K_template, YStr(template)),
                          Entry(K_input_config, YDict(fields))>>))>>)

RenderTrees == {LeafTree(tpl, c) : tpl \in Templates, c \in TextConfigs}

\* The options of the multiselect fields: strings, and a number (YAML reads
\* an unquoted 7 as an int)
OptionPool ==
    <<YStr(<<"D", "i", "r", "e", "c", "t", "o", "r", "s", "h", "i", "p">>),
      YStr(<<"C", "r", "i", "m", "i", "n", "a", "l">>),
      YStr(<<"C", "r", "e", "d", "i", "t">>),
      YStr(<<"B">>),
      YInt(7)>>

W_select_with_conditional ==
    <<"s", "e", "l", "e", "c", "t", "_", "w", "i", "t", "h", "_",
      "c", "o", "n", "d", "i", "t", "i", "o", "n", "a", "l">>

W_dropdown == <<"d", "r", "o", "p", "d", "o", "w", "n">>

K_conditional == <<"c", "o", "n", "d", "i", "t", "i", "o", "n", "a", "l">>

K_trigger_option ==
    <<"t", "r", "i", "g", "g", "e", "r", "_", "o", "p", "t", "i", "o", "n">>

\* The option that asks for the second input of a conditional field
TriggerText == <<"a", "b">>

WidgetChoices ==
    {YNone, YStr(W_text_input), YStr(W_text_area), YStr(W_multiselect),
     YStr(W_select_with_conditional), YStr(W_dropdown)}

FormatFunctionChoices ==
    {YNone, YStr(S_format_check_types), YStr(<<"n", "o", "p", "e">>)}

\* What a field's configuration holds beside widget and format_function
MoreConfig(widget) ==
    IF widget = YStr(W_multiselect) THEN <<Entry(K_options, YList(OptionPool))>>
    ELSE IF widget = YStr(W_select_with_conditional)
    THEN <<Entry(K_options, YList(<<YStr(<<"v">>), YStr(TriggerText)>>)),
           Entry(K_conditional,
                 YDict(<<Entry(K_trigger_option, YStr(TriggerText))>>))>>
    ELSE <<>>

\* Schemas of one leaf whose first field is of every widget kind, with and
\* without a format function, alone or followed by a text field
FieldTrees ==
    {LeafTree(IF more = <<>> THEN <<"{", "x", "}">>
              ELSE <<"{", "x", "}", "{", "y", "}">>,
              <<Entry(N_x, FieldConfig(w, f, MoreConfig(w)))>> \o more) :
        w \in WidgetChoices, f \in FormatFunctionChoices,
        more \in {<<>>, <<TextField(N_y)>>}}

\* What yaml.safe_load returns for a file that parses
ParsedValues ==
    NavTrees \cup RenderTrees \cup FieldTrees
        \cup {YNone, YDict(<<>>), YList(<<>>), YList(<<YStr(<<"v">>)>>),
              YStr(<<"v">>), YInt(0), YInt(5)}

\* templates.yaml: absent, unreadable, no YAML, or parsed
Sources ==
    {[kind |-> k, data |-> YNone] : k \in {"missing", "unreadable", "malformed"}}
        \cup {[kind |-> "parsed", data |-> d] : d \in ParsedValues}

\* What the user may type into a text widget
TextValues == {<<>>, TriggerText, <<"{", "y", "}">>}

\* The selections of a multiselect over n options, in the order selected:
\* sequences of distinct indices, at most MaxSel of them
Selections(n) ==
    {s \in UNION {[1..m -> 1..n] : m \in 0..MaxSel} :
        \A i, j \in DOMAIN s : i # j => s[i] # s[j]}

\* The values a widget may return
WidgetResults(widget_type, options) ==
    IF widget_type = YStr(W_multiselect)
    THEN {YList([i \in DOMAIN s |-> options.l[s[i]]]) : s \in Selections(Len(options.l))}
    ELSE {YStr(v) : v \in TextValues}

\* The dates the clock may give
Dates ==
    {<<"2", "0", "2", "6", "-", "1", "1", "-", "0", "5">>,
     <<"2", "0", "2", "7", "-", "0", "1", "-", "0", "1">>}

(***************************************************************************)
(* One run of the script.                                                  *)
(***************************************************************************)
VARIABLES
    source,                   \* templates.yaml, as the run finds it
    pc,                       \* where the run is
    template_data,            \* what load_yaml_data returned
    sidebar_options,          \* the OrderedDict of display string -> key path
    selected_display_option,  \* what the selectbox returned, or None
    selected_key_path,        \* the key path looked up
    selected_note_data,       \* what get_nested_item returned, or None
    template,                 \* the leaf's template
    input_config,             \* the leaf's input_config
    idx,                      \* the field the loop over input_config is at
    widget_values,            \* placeholder name -> raw widget value
    user_inputs,              \* placeholder name -> value for the template
    today,                    \* the date read from the clock, once read
    generated_note,           \* the text of the output text area, or None
    msgs                      \* what the run has shown: errors, warnings, infos

vars ==
    <<source, pc, template_data, sidebar_options, selected_display_option,
      selected_key_path, selected_note_data, template, input_config, idx,
      widget_values, user_inputs, today, generated_note, msgs>>

\* A message shown to the user, or the exception that ended the run
Msg(lvl, what, about) == [lvl |-> lvl, what |-> what, about |-> about]

\* A run that has not started
Fresh ==
    /\ pc = "load"
    /\ template_data = YNone
    /\ sidebar_options = <<>>
    /\ selected_display_option = YNone
    /\ selected_key_path = <<>>
    /\ selected_note_data = YNone
    /\ template = <<>>
    /\ input_config = YDict(<<>>)
    /\ idx = 1
    /\ widget_values = <<>>
    /\ user_inputs = <<>>
    /\ today = <<>>
    /\ generated_note = YNone
    /\ msgs = <<>>

Init == source \in Sources /\ Fresh

\* load_yaml_data(YAML_FILE): every failure is shown and gives None
load_yaml_data(src) ==
    CASE src.kind = "missing" ->
            [data |-> YNone, shown |-> <<Msg("error", "YamlNotFound", <<>>)>>]
      [] src.kind = "malformed" ->
            [data |-> YNone, shown |-> <<Msg("error", "YamlParseError", <<>>)>>]
      [] src.kind = "unreadable" ->
            [data |-> YNone, shown |-> <<Msg("error", "YamlUnexpectedError", <<>>)>>]
      [] src.kind = "parsed" ->
            IF src.data = YNone
            THEN [data |-> YNone, shown |-> <<Msg("error", "YamlEmpty", <<>>)>>]
            ELSE [data |-> src.data, shown |-> <<>>]

LoadData ==
    /\ pc = "load"
    /\ LET r == load_yaml_data(source)
       IN  /\ template_data' = r.data
           /\ msgs' = msgs \o r.shown
    /\ pc' = "options"
    /\ UNCHANGED <<source, sidebar_options, selected_display_option,
                   selected_key_path, selected_note_data, template,
                   input_config, idx, widget_values, user_inputs, today,
                   generated_note>>

\* if template_data: sidebar_options = get_sidebar_options(template_data);
\* sub_data.items() raises AttributeError for data that is no dict, and
\* nothing catches it.
BuildSidebarOptions ==
    /\ pc = "options"
    /\ IF ~Truthy(template_data)
       THEN /\ pc' = "sidebar"
            /\ UNCHANGED <<sidebar_options, msgs>>
       ELSE IF template_data.t # "dict"
       THEN /\ pc' = "crashed"
            /\ msgs' = Append(msgs, Msg("exception", "AttributeError", <<>>))
            /\ UNCHANGED sidebar_options
       ELSE /\ pc' = "sidebar"
            /\ sidebar_options' = get_sidebar_options(template_data)
            /\ UNCHANGED msgs
    /\ UNCHANGED <<source, template_data, selected_display_option,
                   selected_key_path, selected_note_data, template,
                   input_config, idx, widget_values, user_inputs, today,
                   generated_note>>

\* The sidebar: the selectbox over the display strings, or an error
Sidebar ==
    /\ pc = "sidebar"
    /\ IF sidebar_options # <<>>
       THEN /\ \E i \in 1..Len(sidebar_options) :
                    selected_display_option' = YStr(sidebar_options[i].k)
            /\ UNCHANGED msgs
       ELSE /\ msgs' = Append(msgs, Msg("error", "NoTemplatesLoaded", <<>>))
            /\ UNCHANGED selected_display_option
    /\ pc' = "lookup"
    /\ UNCHANGED <<source, template_data, sidebar_options, selected_key_path,
                   selected_note_data, template, input_config, idx,
                   widget_values, user_inputs, today, generated_note>>

\* The key path of the selected display string, and the node at that path
Lookup ==
    /\ pc = "lookup"
    /\ IF Truthy(selected_display_option) /\ Truthy(template_data)
            /\ sidebar_options # <<>>
       THEN LET path == Get(YDict(sidebar_options), selected_display_option.s)
                r == get_nested_item(template_data, path)
            IN  /\ selected_key_path' = path
                /\ selected_note_data' = r.val
                /\ msgs' = IF r.exc = "none" THEN msgs
                           ELSE Append(msgs, Msg("error", "PathNotFound",
                                                 selected_display_option.s))
       ELSE UNCHANGED <<selected_key_path, selected_note_data, msgs>>
    /\ pc' = "main"
    /\ UNCHANGED <<source, template_data, sidebar_options,
                   selected_display_option, template, input_config, idx,
                   widget_values, user_inputs, today, generated_note>>

\* if selected_note_data: the header, the template and the input_config.
\* A node that is no dict has no get, and nothing catches the AttributeError.
BeginNote ==
    /\ pc = "main"
    /\ Truthy(selected_note_data)
    /\ IF selected_note_data.t # "dict"
       THEN /\ pc' = "crashed"
            /\ msgs' = Append(msgs, Msg("exception", "AttributeError", <<>>))
            /\ UNCHANGED <<template, input_config>>
       ELSE LET config == GetOr(selected_note_data, K_input_config, YDict(<<>>))
            IN  /\ template' = PyStr(GetOr(selected_note_data, K_template,
                                         YStr(S_TemplateNotFound)))
                /\ input_config' = config
                /\ msgs' = IF Truthy(config) THEN msgs
                           ELSE Append(msgs, Msg("info", "NoDetailsRequired", <<>>))
                /\ pc' = IF Truthy(config) THEN "fields" ELSE "date"
    /\ UNCHANGED <<source, template_data, sidebar_options,
                   selected_display_option, selected_key_path,
                   selected_note_data, idx, widget_values, user_inputs, today,
                   generated_note>>

\* else: nothing is selected
NoSelection ==
    /\ pc = "main"
    /\ ~Truthy(selected_note_data)
    /\ msgs' = Append(msgs, Msg("info", "SelectTemplate", <<>>))
    /\ pc' = "footer"
    /\ UNCHANGED <<source, template_data, sidebar_options,
                   selected_display_option, selected_key_path,
                   selected_note_data, template, input_config, idx,
                   widget_values, user_inputs, today, generated_note>>

\* widget_type is one of the kinds the script has a branch for
KnownWidget(widget_type) ==
    widget_type \in {YStr(W_text_input), YStr(W_text_area), YStr(W_multiselect)}

\* UnsupportedWarning without the warning
UnsupportedWarning_Silent(widget_type, placeholder_name) == <<>>

\* else: st.warning for a widget kind without a branch
UnsupportedWarning(widget_type, placeholder_name) ==
    IF KnownWidget(widget_type) THEN <<>>
    ELSE <<Msg("warning", "UnsupportedWidget", placeholder_name)>>

\* FinalValue with the raw value kept where the marker belongs
FinalValue_KeepsRaw(placeholder_name, format_function_name, raw_value) ==
    IF ~Truthy(format_function_name)
    THEN [val |-> raw_value, shown |-> <<>>]
    ELSE IF format_function_name.t = "str" /\ InRegistry(format_function_name.s)
    THEN LET r == ApplyRegistered(format_function_name.s, raw_value)
         IN  IF r.raised
             THEN [val |-> raw_value,
                   shown |-> <<Msg("error", "FormatFunctionError", placeholder_name)>>]
             ELSE [val |-> r.val, shown |-> <<>>]
    ELSE [val |-> raw_value,
          shown |-> <<Msg("error", "UnknownFormatFunction", placeholder_name)>>]

\* The value for the template and what is shown, for the raw value of a field
FinalValue(placeholder_name, format_function_name, raw_value) ==
    IF ~Truthy(format_function_name)
    THEN [val |-> raw_value, shown |-> <<>>]
    ELSE IF format_function_name.t = "str" /\ InRegistry(format_function_name.s)
    THEN LET r == ApplyRegistered(format_function_name.s, raw_value)
         IN  IF r.raised
             THEN [val |-> YStr(S_FormattingError),
                   shown |-> <<Msg("error", "FormatFunctionError", placeholder_name)>>]
             ELSE [val |-> r.val, shown |-> <<>>]
    ELSE [val |-> YStr(S_UnknownFormatFunction),
          shown |-> <<Msg("error", "UnknownFormatFunction", placeholder_name)>>]

\* One turn of the loop over input_config.items(): the widget, the raw value
\* it returns, the format function, the value for the template
Field ==
    /\ pc = "fields"
    /\ LET placeholder_name == input_config.items[idx].k
           config == input_config.items[idx].v
           widget_type == GetOr(config, K_widget, YStr(W_text_input))
           options == GetOr(config, K_options, YList(<<>>))
           format_function_name == GetOr(config, K_format_function, YNone)
           warned == UnsupportedWarning(widget_type, placeholder_name)
       IN  \E raw_value \in WidgetResults(widget_type, options) :
              LET final == FinalValue(placeholder_name, format_function_name,
                                      raw_value)
              IN  /\ widget_values' = (placeholder_name :> raw_value) @@ widget_values
                  /\ user_inputs' = (placeholder_name :> final.val) @@ user_inputs
                  /\ msgs' = msgs \o warned \o final.shown
    /\ idx' = idx + 1
    /\ pc' = IF idx = Len(input_config.items) THEN "date" ELSE "fields"
    /\ UNCHANGED <<source, template_data, sidebar_options,
                   selected_display_option, selected_key_path,
                   selected_note_data, template, input_config, today,
                   generated_note>>

\* WithCurrentDate that leaves an entry of that name as it is (setdefault)
WithCurrentDate_KeepsEntry(inputs, d) == inputs @@ (K_current_date :> YStr(d))

\* user_inputs["current_date"] = d
WithCurrentDate(inputs, d) == (K_current_date :> YStr(d)) @@ inputs

\* if "{current_date}" in template: user_inputs["current_date"] = today
InjectCurrentDate ==
    /\ pc = "date"
    /\ IF Contains(template, S_CurrentDateField)
       THEN \E d \in Dates :
               /\ today' = d
               /\ user_inputs' = WithCurrentDate(user_inputs, d)
       ELSE UNCHANGED <<today, user_inputs>>
    /\ pc' = "generate"
    /\ UNCHANGED <<source, template_data, sidebar_options,
                   selected_display_option, selected_key_path,
                   selected_note_data, template, input_config, idx,
                   widget_values, generated_note, msgs>>

\* generated_note = template.format(...), shown in a text area; a KeyError
\* and any other exception are shown instead
GenerateNote ==
    /\ pc = "generate"
    /\ LET r == Format(template, user_inputs)
       IN  IF r.exc = "none"
           THEN /\ generated_note' = YStr(r.out)
                /\ UNCHANGED msgs
           ELSE /\ msgs' = Append(msgs,
                                  IF r.exc = "KeyError"
                                  THEN Msg("error", "MissingPlaceholder", r.arg)
                                  ELSE Msg("error", "NoteGenerationError", <<>>))
                /\ UNCHANGED generated_note
    /\ pc' = "footer"
    /\ UNCHANGED <<source, template_data, sidebar_options,
                   selected_display_option, selected_key_path,
                   selected_note_data, template, input_config, idx,
                   widget_values, user_inputs, today>>

\* The footer ends the run
Footer ==
    /\ pc = "footer"
    /\ pc' = "done"
    /\ UNCHANGED <<source, template_data, sidebar_options,
                   selected_display_option, selected_key_path,
                   selected_note_data, template, input_config, idx,
                   widget_values, user_inputs, today, generated_note, msgs>>

\* Streamlit runs the script again, from the top, on the next interaction
Rerun ==
    /\ pc \in {"done", "crashed"}
    /\ pc' = "load"
    /\ template_data' = YNone
    /\ sidebar_options' = <<>>
    /\ selected_display_option' = YNone
    /\ selected_key_path' = <<>>
    /\ selected_note_data' = YNone
    /\ template' = <<>>
    /\ input_config' = YDict(<<>>)
    /\ idx' = 1
    /\ widget_values' = <<>>
    /\ user_inputs' = <<>>
    /\ today' = <<>>
    /\ generated_note' = YNone
    /\ msgs' = <<>>
    /\ UNCHANGED source

Next ==
    \/ LoadData
    \/ BuildSidebarOptions
    \/ Sidebar
    \/ Lookup
    \/ BeginNote
    \/ NoSelection
    \/ Field
    \/ InjectCurrentDate
    \/ GenerateNote
    \/ Footer
    \/ Rerun

Spec == Init /\ [][Next]_vars

(***************************************************************************)
(* What the properties below speak of.                                     *)
(***************************************************************************)
\* The run has selected a node and gone through note generation
Rendered == pc \in {"footer", "done"} /\ Truthy(selected_note_data)

\* The run has looked a selection up
LookedUp == Truthy(selected_display_option) /\ pc # "lookup"

\* The placeholders whose field the loop has been through
ProcessedNames == {input_config.items[i].k : i \in 1..(idx - 1)}

ConfigOf(name) == Get(input_config, name)

Shown(lvl, what, about) == \E i \in 1..Len(msgs) : msgs[i] = Msg(lvl, what, about)

ShownWhat(what) == \E i \in 1..Len(msgs) : msgs[i].what = what

\* The entry of current_date has been overwritten with the date of the clock
DateInjected == today # <<>>

IsBrace(c) == c = "{" \/ c = "}"

\* The texts name of the occurrences {name} in a template
PlaceholderNames(tpl) ==
    {SubSeq(tpl, i + 1, j - 1) :
        <<i, j>> \in {p \in (1..Len(tpl)) \X (1..Len(tpl)) :
                        /\ p[1] < p[2]
                        /\ tpl[p[1]] = "{"
                        /\ tpl[p[2]] = "}"
                        /\ \A m \in (p[1] + 1)..(p[2] - 1) : ~IsBrace(tpl[m])}}

\* The end of the placeholder that opens at i: the next closing brace
NextClose(tpl, i) ==
    IF \E j \in (i + 1)..Len(tpl) : tpl[j] = "}"
    THEN CHOOSE j \in (i + 1)..Len(tpl) :
            tpl[j] = "}" /\ \A m \in (i + 1)..(j - 1) : tpl[m] # "}"
    ELSE 0

\* Every brace of the template, from position i on, delimits a placeholder
\* {name} whose name is not empty, holds no brace and is no number
RECURSIVE WellBracedFrom(_, _)
WellBracedFrom(tpl, i) ==
    IF i > Len(tpl) THEN TRUE
    ELSE IF tpl[i] = "}" THEN FALSE
    ELSE IF tpl[i] # "{" THEN WellBracedFrom(tpl, i + 1)
    ELSE LET j == NextClose(tpl, i)
         IN  /\ j > i + 1
             /\ \A m \in (i + 1)..(j - 1) : tpl[m] # "{"
             /\ \E m \in (i + 1)..(j - 1) : ~IsDigit(tpl[m])
             /\ WellBracedFrom(tpl, j + 1)

WellBraced(tpl) == WellBracedFrom(tpl, 1)

\* A well-braced template with each placeholder replaced by the text of its
\* value, the values taken as they are
RECURSIVE SubstituteFrom(_, _, _)
SubstituteFrom(tpl, i, values) ==
    IF i > Len(tpl) THEN <<>>
    ELSE IF tpl[i] # "{" THEN <<tpl[i]>> \o SubstituteFrom(tpl, i + 1, values)
    ELSE LET j == NextClose(tpl, i)
         IN  PyStr(values[SubSeq(tpl, i + 1, j - 1)])
                \o SubstituteFrom(tpl, j + 1, values)

Substitute(tpl, values) == SubstituteFrom(tpl, 1, values)

\* What the claim about render says of a finished note generation
RenderAsClaimed ==
    LET names == PlaceholderNames(template)
    IN  /\ generated_note # YNone <=> names \subseteq DOMAIN user_inputs
        /\ generated_note # YNone =>
              generated_note = YStr(Substitute(template, user_inputs))
        /\ ~(names \subseteq DOMAIN user_inputs) =>
              /\ generated_note = YNone
              /\ \E n \in names \ DOMAIN user_inputs :
                    Shown("error", "MissingPlaceholder", n)

(***************************************************************************)
(* C1.                                                                     *)
(***************************************************************************)
\* The key paths of the leaves (the nodes with a template) below the
\* entries of a mapping, depth first, siblings in insertion order
RECURSIVE LeafPathsFrom(_, _, _)
LeafPathsFrom(items, i, path) ==
    IF i > Len(items) THEN <<>>
    ELSE LET node == items[i].v
             here == Append(path, items[i].k)
             rest == LeafPathsFrom(items, i + 1, path)
         IN  IF node.t # "dict" THEN rest
             ELSE IF Has(node, K_template) THEN <<here>> \o rest
             ELSE IF Has(node, K_sub_items) /\ Get(node, K_sub_items).t = "dict"
             THEN LeafPathsFrom(Get(node, K_sub_items).items, 1, here) \o rest
             ELSE rest

\* C1: once the options are built from a schema tree, their key paths are
\* the key paths of the tree's leaves, each once, depth first with siblings
\* in insertion order; no leaf is lost or merged with another.
C1_FlattenEmitsEveryLeafOnce ==
    (pc \in {"sidebar", "lookup", "main"} /\ template_data.t = "dict") =>
        [i \in 1..Len(sidebar_options) |-> sidebar_options[i].v]
            = LeafPathsFrom(template_data.items, 1, <<>>)

(***************************************************************************)
(* C2.                                                                     *)
(***************************************************************************)
\* The node at a key path from the root, going through the children of
\* each group
RECURSIVE NodeAt(_, _)
NodeAt(node, path) ==
    IF path = <<>> THEN node
    ELSE LET children == IF Has(node, K_sub_items) THEN Get(node, K_sub_items)
                         ELSE node
         IN  NodeAt(Get(children, path[1]), Tail(path))

\* C2: looking up the key path of the selected option, key by key from the
\* root, gives the leaf that flatten emitted it for, with its template, and
\* shows no path-not-found error.
C2_EmittedPathFindsItsLeaf ==
    LookedUp =>
        /\ ~ShownWhat("PathNotFound")
        /\ selected_note_data.t = "dict"
        /\ Has(selected_note_data, K_template)
        /\ selected_note_data = NodeAt(template_data, selected_key_path)

(***************************************************************************)
(* C3.                                                                     *)
(***************************************************************************)
\* C3 as claimed: for every template, render succeeds exactly when every
\* {name} in the template has an entry, and then gives the template with
\* each placeholder replaced; else it fails naming a missing placeholder and
\* gives no note.
C3_RenderSucceedsIffAllPresent == Rendered => RenderAsClaimed

\* C3 as amended: the same, for the templates all of whose braces delimit a
\* placeholder {name} (no doubled or unmatched brace, no empty or numeric
\* name).
C3_RenderWellBraced == (Rendered /\ WellBraced(template)) => RenderAsClaimed

\* A note generated from a template with a placeholder, while an entry the
\* template does not reference is in the mapping too
C3_Witness ==
    /\ Rendered
    /\ WellBraced(template)
    /\ PlaceholderNames(template) # {}
    /\ DOMAIN user_inputs \ PlaceholderNames(template) # {}
    /\ generated_note # YNone

(***************************************************************************)
(* C4.                                                                     *)
(***************************************************************************)
FormatFailureShown ==
    ShownWhat("UnknownFormatFunction") \/ ShownWhat("FormatFunctionError")

MarkerOf(name) ==
    IF Shown("error", "UnknownFormatFunction", name) THEN S_UnknownFormatFunction
    ELSE IF Shown("error", "FormatFunctionError", name) THEN S_FormattingError
    ELSE <<>>

IncompleteConditional(name) ==
    /\ GetOr(ConfigOf(name), K_widget, YNone) = YStr(W_select_with_conditional)
    /\ Has(ConfigOf(name), K_conditional)
    /\ widget_values[name] = Get(Get(ConfigOf(name), K_conditional), K_trigger_option)

\* C5: a select-with-conditional field whose selection is the trigger
\* option, with an empty conditional input, is not put into the resolved
\* mapping, IncompleteConditionalInput is reported and no note is generated.
C5_IncompleteConditionalWithholdsNote ==
    \A name \in ProcessedNames :
        IncompleteConditional(name) =>
            /\ name \notin DOMAIN user_inputs
            /\ ShownWhat("IncompleteConditionalInput")
            /\ generated_note = YNone

(***************************************************************************)
(* C6.                                                                     *)
(***************************************************************************)
\* The sequence in lexicographic order of a sequence of distinct strings
InOrder(strs) ==
    CHOOSE p \in [1..Len(strs) -> {strs[i] : i \in 1..Len(strs)}] :
        \A i \in 1..(Len(strs) - 1) : StrLess(p[i], p[i + 1])

\* The result claimed for a selection; two items are joined as selected, or
\* (bySelection false) in lexicographic order
Joined(strs, bySelection) ==
    IF Len(strs) = 0 THEN S_NoCheckType
    ELSE IF Len(strs) = 1 THEN strs[1]
    ELSE IF Len(strs) = 2
    THEN IF bySelection THEN strs[1] \o S_Amp \o strs[2]
         ELSE InOrder(strs)[1] \o S_Amp \o InOrder(strs)[2]
    ELSE IF Len(strs) = 3 THEN S_ThreeLiteral
    ELSE Join(S_Amp, InOrder(strs))

\* The field went through format_check_types with a selection of strings
JoinedField(name) ==
    /\ GetOr(ConfigOf(name), K_format_function, YNone) = YStr(S_format_check_types)
    /\ widget_values[name].t = "list"
    /\ \A i \in 1..Len(widget_values[name].l) : widget_values[name].l[i].t = "str"
    /\ ~(name = K_current_date /\ DateInjected)

SelectedStrings(name) ==
    [i \in 1..Len(widget_values[name].l) |-> widget_values[name].l[i].s]

\* C6 as claimed: "A & B" for the selection [A, B], as selected.
C6_JoinerAsClaimed ==
    \A name \in ProcessedNames :
        JoinedField(name) =>
            user_inputs[name] = YStr(Joined(SelectedStrings(name), TRUE))

\* C6 as amended: format_check_types returns "[No check type selected]" for
\* an empty selection, the item for one item, the two items of a two-item
\* selection in lexicographic order joined with " & ", the literal
\* "Credit, Criminal & Directorship" for every three-item selection, and
\* for four or more items all of them in lexicographic order joined with
\* " & ".
C6_JoinerSorted ==
    \A name \in ProcessedNames :
        JoinedField(name) =>
            user_inputs[name] = YStr(Joined(SelectedStrings(name), FALSE))

\* A two-item selection made in descending order, joined in ascending order
C6_Witness ==
    /\ N_x \in ProcessedNames
    /\ JoinedField(N_x)
    /\ Len(widget_values[N_x].l) = 2
    /\ StrLess(widget_values[N_x].l[2].s, widget_values[N_x].l[1].s)
    /\ user_inputs[N_x] = YStr(widget_values[N_x].l[2].s \o S_Amp
                                 \o widget_values[N_x].l[1].s)

(***************************************************************************)
(* C7.                                                                     *)
(***************************************************************************)
\* templates.yaml is missing, unreadable, malformed, empty, or no mapping
InvalidSource == source.kind # "parsed" \/ source.data.t # "dict"

\* C7: with an invalid source the run does not crash, the options are
\* empty, nothing is selected, the run reaches neither input resolution nor
\* note generation, and an error has been shown once the sidebar is drawn.
C7_InvalidSourceNeverCrashes ==
    InvalidSource =>
        /\ pc \notin {"crashed", "fields", "date", "generate"}
        /\ sidebar_options = <<>>
        /\ selected_display_option = YNone
        /\ generated_note = YNone
        /\ pc \in {"lookup", "main", "footer", "done"} =>
              \E i \in 1..Len(msgs) : msgs[i].lvl = "error"

(***************************************************************************)
(* C8.                                                                     *)
(***************************************************************************)
UnknownWidgetField(name) ==
    /\ ~KnownWidget(GetOr(ConfigOf(name), K_widget, YStr(W_text_input)))
    /\ ~(name = K_current_date /\ DateInjected)

\* The loop goes through the fields in insertion order and leaves none out
LoopInOrder ==
    /\ DOMAIN widget_values = ProcessedNames
    /\ DOMAIN user_inputs \ {K_current_date} = ProcessedNames \ {K_current_date}
    /\ pc \in {"date", "generate"} \/ Rendered => idx = Len(input_config.items) + 1

\* C8 as claimed: a field of an unrecognized widget kind gets a warning
\* naming it, its value is the raw text as typed, and the loop goes on.
C8_UnknownWidgetIsText ==
    /\ LoopInOrder
    /\ \A name \in ProcessedNames :
          UnknownWidgetField(name) =>
              /\ Shown("warning", "UnsupportedWidget", name)
              /\ widget_values[name].t = "str"
              /\ user_inputs[name] = widget_values[name]

\* C8 as amended: a field of an unrecognized widget kind gets a warning
\* naming it and is read as a text field; if it names no format function
\* its value is the raw text as typed (an empty string stays empty), else
\* the value is what the format function step gives for that text; the loop
\* goes on with the remaining fields in insertion order.
C8_UnknownWidgetFallsBackToText ==
    /\ LoopInOrder
    /\ \A name \in ProcessedNames :
          UnknownWidgetField(name) =>
              /\ Shown("warning", "UnsupportedWidget", name)
              /\ widget_values[name].t = "str"
              /\ ~Truthy(GetOr(ConfigOf(name), K_format_function, YNone)) =>
                    user_inputs[name] = widget_values[name]
              /\ GetOr(ConfigOf(name), K_format_function, YNone)
                    = YStr(S_format_check_types) =>
                    user_inputs[name]
                        = YStr(Joined([i \in 1..Len(widget_values[name].s) |->
                                          <<widget_values[name].s[i]>>], FALSE))

\* An empty text typed into a field of an unknown kind, kept as it is, and
\* the next field gone through after it
C8_Witness ==
    /\ Rendered
    /\ N_x \in ProcessedNames
    /\ ConfigOf(N_x) = FieldConfig(YStr(W_dropdown), YNone, <<>>)
    /\ widget_values[N_x] = YStr(<<>>)
    /\ user_inputs[N_x] = YStr(<<>>)
    /\ N_y \in DOMAIN user_inputs
    /\ generated_note # YNone

(***************************************************************************)
(* C9.                                                                     *)
(***************************************************************************)
\* C9: when the template contains {current_date}, the entry of current_date
\* is the date read from the clock, whatever a field of that name holds, and
\* a note generated from a well-braced template carries that date; when the
\* template does not contain it, the clock is not read and the mapping holds
\* what the fields gave and nothing else.
C9_CurrentDateFromClock ==
    (pc = "generate" \/ Rendered) =>
        IF Contains(template, S_CurrentDateField)
        THEN /\ today \in Dates
             /\ user_inputs[K_current_date] = YStr(today)
             /\ (WellBraced(template) /\ generated_note # YNone) =>
                   generated_note
                     = YStr(Substitute(template,
                                       [n \in DOMAIN user_inputs |->
                                          IF n = K_current_date THEN YStr(today)
                                          ELSE user_inputs[n]]))
        ELSE /\ today = <<>>
             /\ DOMAIN user_inputs = ProcessedNames
             /\ K_current_date \in DOMAIN user_inputs =>
                   user_inputs[K_current_date] = widget_values[K_current_date]

\* A note with the date of the clock, while the field named current_date
\* holds another text
C9_Witness ==
    /\ Rendered
    /\ Contains(template, S_CurrentDateField)
    /\ K_current_date \in DOMAIN widget_values
    /\ widget_values[K_current_date] # YStr(today)
    /\ generated_note # YNone
    /\ Contains(generated_note.s, today)

(***************************************************************************)
(* C10.                                                                    *)
(***************************************************************************)
\* The mapping with every value replaced by the empty string
Blanked(values) == [n \in DOMAIN values |-> YStr(<<>>)]

\* C10: whether a note is generated does not depend on the text of the
\* values; a value is copied into the note as it is, braces included; and a
\* missing placeholder that is reported is one of the template, never one
\* that only a value mentions.
C10_SinglePass ==
    Rendered =>
        /\ generated_note # YNone <=> Format(template, Blanked(user_inputs)).exc = "none"
        /\ (generated_note # YNone /\ WellBraced(template)) =>
              generated_note = YStr(Substitute(template, user_inputs))
        /\ \A i \in 1..Len(msgs) :
              msgs[i].what = "MissingPlaceholder" =>
                  /\ Contains(template, <<"{">> \o msgs[i].about \o <<"}">>)
                  /\ msgs[i].about \notin DOMAIN user_inputs

\* A note that holds the text {y} of a value, y having no entry
C10_Witness ==
    /\ Rendered
    /\ N_x \in PlaceholderNames(template)
    /\ N_x \in DOMAIN user_inputs
    /\ user_inputs[N_x] = YStr(<<"{", "y", "}">>)
    /\ N_y \notin DOMAIN user_inputs
    /\ generated_note # YNone
    /\ Contains(generated_note.s, <<"{", "y", "}">>)

=============================================================================
